---- MODULE Spec2Model ----
(***************************************************************************)
(* DBSCAN clustering engine of src/cluster/dbscan.py (class DBSCAN).       *)
(*                                                                         *)
(* Python lists are modelled as sequences; a Python index i (0-based) is   *)
(* the element i + 1 of the sequence, read with At(s, i).  The run method  *)
(* is cut at the heads of its two loops and around the call of             *)
(* _expandCluster, so that the intermediate label tables are states.       *)
(***************************************************************************)
EXTENDS Integers, Sequences, FiniteSets

VARIABLES d, eps, min_pts, assigned, cluster, pc, p, n, c, p_prime, results, queries

vars == <<d, eps, min_pts, assigned, cluster, pc, p, n, c, p_prime, results, queries>>

(* ---- bounds of the model ---- *)
MaxN == 3
MaxCoord == 3
MaxMixedN == 3
MaxMixedCoord == 1
MaxDim == 2
MaxEps == 1
MaxMinPts == 4
MaxRuns == 2

(* ---- values of the label table ---- *)
None == -2
Noise == -1

(* ---- Python list helpers ---- *)
At(s, i) == s[i + 1]

SetAt(s, i, v) == [s EXCEPT ![i + 1] = v]

Range(s) == {s[k] : k \in 1..Len(s)}

Indices == 0..(Len(d) - 1)

(* Python 2 ordering of None against an integer: None is smaller than any number *)
PyGt(a, b) == IF a = None THEN FALSE ELSE a > b

(* ---- the datasets the engine is constructed with ---- *)
SeqsUpTo(S, k) == UNION {[1..m -> S] : m \in 0..k}

Points1D == [1..1 -> 0..MaxCoord]

MixedPoints == UNION {[1..m -> 0..MaxMixedCoord] : m \in 1..MaxDim}

(* two dense groups joined through one border point (eps = 1, min_pts = 4) *)
BridgeData == <<(<<0>>), (<<0>>), (<<1>>), (<<2>>), (<<3>>), (<<4>>), (<<4>>)>>

(* a chain of three points and one point far from it *)
GapData == <<(<<0>>), (<<1>>), (<<2>>), (<<4>>)>>

ScenarioData == {BridgeData, GapData}

(* datasets whose points all have one coordinate *)
Datasets == SeqsUpTo(Points1D, MaxN) \cup ScenarioData

(* datasets whose points may differ in their number of coordinates *)
MixedDatasets == SeqsUpTo(MixedPoints, MaxMixedN)

EpsValues == (-1)..MaxEps

MinPtsValues == 0..MaxMinPts

(* ---- _euclidean ---- *)
(* the access self.d[p2][i] raises IndexError when p1 has more coordinates than p2 *)
EuclideanRaises(p1, p2) == Len(At(d, p1)) > Len(At(d, p2))

RECURSIVE SumSquares(_, _, _)
SumSquares(p1, p2, k) ==
    IF k = 0 THEN 0
    ELSE SumSquares(p1, p2, k - 1) + (At(d, p1)[k] - At(d, p2)[k]) * (At(d, p1)[k] - At(d, p2)[k])

(* the value under the square root; the distance itself is its square root *)
_euclidean(p1, p2) == SumSquares(p1, p2, Len(At(d, p1)))

(* variant: a point at distance exactly eps is not a neighbor *)
WithinEps_Strict(sum) == eps >= 0 /\ sum < eps * eps

(* math.sqrt(sum) <= self.eps, for an integer sum and an integer eps *)
WithinEps(sum) == eps >= 0 /\ sum <= eps * eps

(* ---- _getNeighbors ---- *)
GetNeighborsRaises(q) == \E i \in Indices : i # q /\ EuclideanRaises(q, i)

RECURSIVE NeighborsFrom(_, _)
NeighborsFrom(q, i) ==
    IF i >= Len(d) THEN <<>>
    ELSE IF i = q THEN NeighborsFrom(q, i + 1)
    ELSE IF WithinEps(_euclidean(q, i)) THEN <<i>> \o NeighborsFrom(q, i + 1)
    ELSE NeighborsFrom(q, i + 1)

_getNeighbors(q) == NeighborsFrom(q, 0)

(* ---- the tests and expressions of run and _expandCluster ---- *)
InitAssigned == [i \in 1..Len(d) |-> None]

(* variant: run keeps the cluster list of the previous call *)
InitCluster_Kept == cluster

InitCluster == <<>>

(* variant: the for loop stops one index early *)
ScanEnd_OffByOne == Len(d) - 1

ScanEnd == Len(d)

(* variant: the for loop does not skip labeled points *)
ScanVisited_Never(q) == FALSE

ScanVisited(q) == ~(At(assigned, q) = None)

(* variant: the point itself is not counted in its neighborhood *)
TooFew_NoSelf(nb) == Len(nb) < min_pts

TooFew(nb) == Len(nb) + 1 < min_pts

(* variant: the id of the last cluster is used again *)
NextClusterId_Last == IF cluster = <<>> THEN 0 ELSE Len(cluster) - 1

NextClusterId == Len(cluster)

(* variant: a Noise entry is queried again *)
Unvisited_OrNoise(q) == At(assigned, q) = None \/ At(assigned, q) = Noise

Unvisited(q) == At(assigned, q) = None

IsCore(nb) == Len(nb) + 1 >= min_pts

(* variant: the neighbors of a core queue entry are joined without the membership test *)
Join_NoDedup(q1, q2) == q1 \o q2

(* variant: the neighbors of a core queue entry are not joined to the queue *)
Join_Dropped(q1, q2) == q1

Join(q1, q2) == q1 \o SelectSeq(q2, LAMBDA i : i \notin Range(q1))

(* variant: every queue entry is claimed, whatever its label *)
Unclaimed_Always(q) == TRUE

(* variant: the label is tested for truth, so id 0 counts as unclaimed and Noise as claimed *)
Unclaimed_Falsy(q) == At(assigned, q) = None \/ At(assigned, q) = 0

(* variant: only never-visited points are claimed, Noise points are not *)
Unclaimed_OnlyNone(q) == At(assigned, q) = None

(* variant: every point outside the current cluster is claimed *)
Unclaimed_OtherCluster(q) == At(assigned, q) # c

Unclaimed(q) == ~PyGt(At(assigned, q), -1)

(* one more call of _getNeighbors(q); queries counts the calls of the current run *)
Queried(q) == SetAt(queries, q, At(queries, q) + 1)

Outcome(status, a, cl) == [status |-> status, assigned |-> a, cluster |-> cl]

(* ---- __init__ ---- *)
Constructed ==
    /\ eps \in EpsValues
    /\ min_pts \in MinPtsValues
    /\ assigned = <<>>
    /\ cluster = <<>>
    /\ pc = "idle"
    /\ p = 0
    /\ n = <<>>
    /\ c = 0
    /\ p_prime = 0
    /\ results = <<>>
    /\ queries = <<>>

Init == d \in Datasets /\ Constructed

InitDim == d \in MixedDatasets /\ Constructed

(* ---- run: entry ---- *)
Run ==
    /\ pc \in {"idle", "done", "error"}
    /\ Len(results) < MaxRuns
    /\ assigned' = InitAssigned
    /\ cluster' = InitCluster
    /\ p' = 0
    /\ pc' = "scan"
    /\ queries' = [i \in 1..Len(d) |-> 0]
    /\ UNCHANGED <<d, eps, min_pts, n, c, p_prime, results>>

(* ---- run: one iteration of the for loop, up to the call of _expandCluster ---- *)
Scan ==
    /\ pc = "scan"
    /\ p < ScanEnd
    /\ IF ScanVisited(p)
       THEN /\ p' = p + 1
            /\ UNCHANGED <<assigned, cluster, pc, n, c, results>>
       ELSE IF GetNeighborsRaises(p)
       THEN /\ pc' = "error"
            /\ results' = Append(results, Outcome("error", assigned, cluster))
            /\ UNCHANGED <<assigned, cluster, p, n, c>>
       ELSE IF TooFew(_getNeighbors(p))
       THEN /\ assigned' = SetAt(assigned, p, Noise)
            /\ p' = p + 1
            /\ UNCHANGED <<cluster, pc, n, c, results>>
       ELSE /\ n' = _getNeighbors(p)
            /\ c' = NextClusterId
            /\ cluster' = Append(cluster, <<>>)
            /\ pc' = "open"
            /\ UNCHANGED <<assigned, p, results>>
    /\ queries' = IF ScanVisited(p) THEN queries ELSE Queried(p)
    /\ UNCHANGED <<d, eps, min_pts, p_prime>>

(* ---- run: the for loop is exhausted and run returns ---- *)
Finish ==
    /\ pc = "scan"
    /\ p >= ScanEnd
    /\ pc' = "done"
    /\ results' = Append(results, Outcome("done", assigned, cluster))
    /\ UNCHANGED <<d, eps, min_pts, assigned, cluster, p, n, c, p_prime, queries>>

(* variant: the seed is labeled but not appended to the member list *)
ExpandEntry_NoAppend ==
    /\ pc = "open"
    /\ assigned' = SetAt(assigned, p, c)
    /\ p_prime' = 0
    /\ pc' = "while"
    /\ UNCHANGED <<d, eps, min_pts, cluster, p, n, c, results, queries>>

(* ---- _expandCluster: the statements before the while loop ---- *)
ExpandEntry ==
    /\ pc = "open"
    /\ cluster' = SetAt(cluster, c, Append(At(cluster, c), p))
    /\ assigned' = SetAt(assigned, p, c)
    /\ p_prime' = 0
    /\ pc' = "while"
    /\ UNCHANGED <<d, eps, min_pts, p, n, c, results, queries>>

(* ---- _expandCluster: first half of the loop body, the region query ---- *)
ExpandVisit ==
    /\ pc = "while"
    /\ p_prime < Len(n)
    /\ IF Unvisited(At(n, p_prime))
       THEN IF GetNeighborsRaises(At(n, p_prime))
            THEN /\ pc' = "error"
                 /\ results' = Append(results, Outcome("error", assigned, cluster))
                 /\ UNCHANGED n
            ELSE /\ n' = IF IsCore(_getNeighbors(At(n, p_prime)))
                         THEN Join(n, _getNeighbors(At(n, p_prime)))
                         ELSE n
                 /\ pc' = "claim"
                 /\ UNCHANGED results
       ELSE /\ pc' = "claim"
            /\ UNCHANGED <<n, results>>
    /\ queries' = IF Unvisited(At(n, p_prime)) THEN Queried(At(n, p_prime)) ELSE queries
    /\ UNCHANGED <<d, eps, min_pts, assigned, cluster, p, c, p_prime>>

(* ---- _expandCluster: second half of the loop body, the claim ---- *)
(* variant: the claimed entry is appended to the member list but not labeled *)
ExpandClaim_NoLabel ==
    /\ pc = "claim"
    /\ IF Unclaimed(At(n, p_prime))
       THEN /\ cluster' = SetAt(cluster, c, Append(At(cluster, c), At(n, p_prime)))
            /\ UNCHANGED assigned
       ELSE UNCHANGED <<assigned, cluster>>
    /\ p_prime' = p_prime + 1
    /\ pc' = "while"
    /\ UNCHANGED <<d, eps, min_pts, p, n, c, results, queries>>

(* variant: the cursor over the queue is not advanced *)
ExpandClaim_NoAdvance ==
    /\ pc = "claim"
    /\ IF Unclaimed(At(n, p_prime))
       THEN /\ cluster' = SetAt(cluster, c, Append(At(cluster, c), At(n, p_prime)))
            /\ assigned' = SetAt(assigned, At(n, p_prime), c)
       ELSE UNCHANGED <<assigned, cluster>>
    /\ pc' = "while"
    /\ UNCHANGED <<d, eps, min_pts, p, n, c, p_prime, results, queries>>

ExpandClaim ==
    /\ pc = "claim"
    /\ IF Unclaimed(At(n, p_prime))
       THEN /\ cluster' = SetAt(cluster, c, Append(At(cluster, c), At(n, p_prime)))
            /\ assigned' = SetAt(assigned, At(n, p_prime), c)
       ELSE UNCHANGED <<assigned, cluster>>
    /\ p_prime' = p_prime + 1
    /\ pc' = "while"
    /\ UNCHANGED <<d, eps, min_pts, p, n, c, results, queries>>

(* ---- _expandCluster returns; the for loop moves to the next index ---- *)
ExpandReturn ==
    /\ pc = "while"
    /\ p_prime >= Len(n)
    /\ p' = p + 1
    /\ n' = <<>>
    /\ c' = 0
    /\ p_prime' = 0
    /\ pc' = "scan"
    /\ UNCHANGED <<d, eps, min_pts, assigned, cluster, results, queries>>

Next == Run \/ Scan \/ Finish \/ ExpandEntry \/ ExpandVisit \/ ExpandClaim \/ ExpandReturn

Spec == Init /\ [][Next]_vars

(* the same engine constructed over points of different lengths *)
SpecDim == InitDim /\ [][Next]_vars

(* run is sequential code: once called it keeps executing until it returns or raises *)
RunStep == Scan \/ Finish \/ ExpandEntry \/ ExpandVisit \/ ExpandClaim \/ ExpandReturn

SpecLive == Init /\ [][Next]_vars /\ WF_vars(RunStep)

TypeOK ==
    /\ pc \in {"idle", "scan", "open", "while", "claim", "done", "error"}
    /\ Len(results) <= MaxRuns

(* ======================= properties ======================= *)

InRun == pc \in {"scan", "open", "while", "claim"}

Label(i) == At(assigned, i)

Members(k) == Range(cluster[k])

NoiseSet == {i \in Indices : Label(i) = Noise}

(* core point: its neighborhood, itself included, holds at least min_pts points *)
CorePoint(q) == ~GetNeighborsRaises(q) /\ Len(_getNeighbors(q)) + 1 >= min_pts

Near(x) == Range(_getNeighbors(x))

(* C1: when run completes every index has a label, which is Noise or a cluster id in 0..K-1, *)
(* K the number of clusters; no index is left Unvisited *)
C1_Completeness ==
    pc = "done" =>
        /\ Len(assigned) = Len(d)
        /\ \A i \in Indices : Label(i) = Noise \/ Label(i) \in 0..(Len(cluster) - 1)

C1_Witness ==
    /\ pc = "done"
    /\ Len(cluster) >= 2
    /\ \E i \in Indices : Label(i) = Noise
    /\ \E i \in Indices : Label(i) = Len(cluster) - 1

(* C2: when run completes the cluster member sets are pairwise disjoint and, together with *)
(* the Noise-labeled indices, cover exactly 0..N-1 *)
C2_Partition ==
    pc = "done" =>
        /\ \A k1, k2 \in 1..Len(cluster) : k1 # k2 => Members(k1) \cap Members(k2) = {}
        /\ UNION {Members(k) : k \in 1..Len(cluster)} \cup NoiseSet = Indices

C2_Witness ==
    /\ pc = "done"
    /\ Len(cluster) >= 2
    /\ NoiseSet # {}
    /\ \E k \in 1..Len(cluster) : Cardinality(Members(k)) >= 2

(* C3: a core point is never labeled Noise, in any state during or after run *)
C3_CoreNeverNoise ==
    pc # "idle" => \A q \in Indices : CorePoint(q) => Label(q) # Noise

C3_Witness ==
    /\ pc = "open"
    /\ CorePoint(p)
    /\ min_pts >= 2
    /\ Len(n) + 1 = min_pts
    /\ NoiseSet # {}

(* C4: when run completes, x is labeled Noise iff x is not a core point and no core point *)
(* has x within eps *)
C4_NoiseMinimality ==
    pc = "done" =>
        \A x \in Indices :
            Label(x) = Noise <=>
                (~CorePoint(x) /\ ~\E y \in Indices : CorePoint(y) /\ x \in Near(y))

C4_Witness ==
    /\ pc = "done"
    /\ NoiseSet # {}
    /\ \E b \in Indices : ~CorePoint(b) /\ Label(b) >= 0 /\ \E y \in Indices : y > b /\ Label(y) = Label(b)
                          /\ \A z \in Indices : z < b => Label(z) # Label(b)

(* C5: a point labeled Cluster(c) keeps that label for the rest of the run, and no index *)
(* is a member of two clusters *)
C5_NoTwoClusters ==
    \A k1, k2 \in 1..Len(cluster) : k1 # k2 => Members(k1) \cap Members(k2) = {}

C5_ClusterLabelStable ==
    /\ []C5_NoTwoClusters
    /\ [][InRun => \A i \in Indices : Label(i) >= 0 => At(assigned', i) = Label(i)]_vars

(* an expansion has met a point of an earlier cluster and passed it *)
C5_Witness ==
    /\ pc = "while"
    /\ p_prime > 0
    /\ Label(At(n, p_prime - 1)) \in 0..(c - 1)

(* C6: within a run a Cluster label never becomes Noise and a labeled point never becomes *)
(* Unvisited again (Noise may become Cluster) *)
C6_OneWayLabels ==
    [][InRun => \A i \in Indices :
                    /\ Label(i) >= 0 => At(assigned', i) # Noise
                    /\ Label(i) # None => At(assigned', i) # None]_vars

(* a point the for loop marked Noise has been claimed by the current expansion *)
C6_Witness ==
    /\ pc = "while"
    /\ \E i \in Indices : i < p /\ ~CorePoint(i) /\ Label(i) = c

(* C7: every call of run on the same object ends with the same labels and cluster list *)
C7_Deterministic ==
    \A i, j \in 1..Len(results) : results[i] = results[j]

C7_Witness ==
    /\ Len(results) = 2
    /\ results[2].status = "done"
    /\ Len(results[2].cluster) >= 2
    /\ \E i \in Indices : At(results[2].assigned, i) = Noise

(* C8: with min_pts < 1 or eps < 0, run does not complete and produces no label and no cluster *)
C8_InvalidParameterRejected ==
    (min_pts < 1 \/ eps < 0) =>
        /\ pc # "done"
        /\ cluster = <<>>
        /\ \A i \in 1..Len(assigned) : assigned[i] = None

(* C9: the metric fails on every pair of points with different coordinate counts, and a *)
(* failed run leaves no partial labels or clusters *)
C9_DimensionMismatchAborts ==
    /\ pc = "open" => \A i \in Indices : Len(At(d, i)) = Len(At(d, p))
    /\ pc = "error" => (cluster = <<>> /\ \A i \in 1..Len(assigned) : assigned[i] = None)

(* C10: when the expansion from seed p into cluster c returns, every core point linked to p *)
(* by a chain of core points is labeled c and every point within eps of such a core point is *)
(* in a cluster 0..c; at completion two core points within eps share their cluster *)
CoreNear(x) == {y \in Near(x) : CorePoint(y)}

RECURSIVE CoreClosure(_)
CoreClosure(S) ==
    LET T == S \cup UNION {CoreNear(x) : x \in S}
    IN IF T = S THEN S ELSE CoreClosure(T)

C10_ExpansionAbsorbs ==
    /\ (pc = "while" /\ p_prime >= Len(n)) =>
           \A x \in CoreClosure({p}) :
               /\ Label(x) = c
               /\ \A y \in Near(x) : Label(y) \in 0..c
    /\ pc = "done" =>
           \A x, y \in Indices : (CorePoint(x) /\ CorePoint(y) /\ y \in Near(x)) => Label(x) = Label(y)

C10_Witness ==
    /\ pc = "while"
    /\ p_prime >= Len(n)
    /\ \E x \in CoreClosure({p}) : x # p /\ x \notin Near(p)
    /\ \E y \in Indices : Label(y) # c

(* the ids of the clusters whose labeled core points have x within eps *)
CoreClustersNear(x) == {Label(y) : y \in {z \in Indices : CorePoint(z) /\ x \in Near(z) /\ Label(z) >= 0}}

SetMin(S) == CHOOSE m \in S : \A k \in S : m <= k

(* C11: a non-core point within eps of core points of several clusters is kept by the *)
(* cluster that reached it first, the one with the smallest id among them *)
C11_FirstClaimWins ==
    /\ pc # "idle" =>
           \A x \in Indices :
               (~CorePoint(x) /\ Label(x) >= 0) => \A k \in CoreClustersNear(x) : Label(x) <= k
    /\ pc = "done" =>
           \A x \in Indices :
               (~CorePoint(x) /\ CoreClustersNear(x) # {}) => Label(x) = SetMin(CoreClustersNear(x))

C11_Witness ==
    /\ pc = "done"
    /\ \E x \in Indices :
           /\ ~CorePoint(x)
           /\ Cardinality(CoreClustersNear(x)) >= 2
           /\ Label(x) = SetMin(CoreClustersNear(x))

(* C12: for min_pts >= 1 every cluster of the list produced by run holds at least min_pts indices *)
C12_ClusterHasMinPts ==
    (pc = "done" /\ min_pts >= 1) =>
        \A k \in 1..Len(cluster) : Cardinality(Members(k)) >= min_pts

UsedIds == {Label(i) : i \in {j \in Indices : Label(j) >= 0}}

(* C13 as stated: at every point of a run the ids in the label table are exactly 0..K-1, *)
(* K the current length of the cluster list *)
C13_IdsDenseAlways ==
    InRun => UsedIds = 0..(Len(cluster) - 1)

(* C13 amended: the ids in the label table are exactly 0..K-1 except while the cluster just *)
(* opened is still empty, when they are 0..K-2; the opened cluster has id K-1, the list length *)
(* before it was appended; its seed is its first member; no cluster of the final list is empty *)
C13_IdsDense ==
    /\ (pc \in {"scan", "while", "claim", "done", "error"}) => UsedIds = 0..(Len(cluster) - 1)
    /\ pc = "open" =>
           /\ c = Len(cluster) - 1
           /\ At(cluster, c) = <<>>
           /\ UsedIds = 0..(Len(cluster) - 2)
    /\ (pc \in {"while", "claim"}) =>
           /\ c = Len(cluster) - 1
           /\ At(cluster, c)[1] = p
    /\ pc = "done" => \A k \in 1..Len(cluster) : cluster[k] # <<>>

C13_Witness ==
    /\ pc = "open"
    /\ Len(cluster) >= 2
    /\ UsedIds = 0..(Len(cluster) - 2)

(* the indices other than q whose distance from q is at most eps *)
Ball(q) == {i \in Indices \ {q} : eps >= 0 /\ _euclidean(q, i) <= eps * eps}

NoRepeat(s) == \A k1, k2 \in 1..Len(s) : k1 # k2 => s[k1] # s[k2]

(* C14: the neighbor query of p returns exactly the indices i # p with distance(p, i) <= eps, *)
(* none of them twice, and the query step changes neither the label table nor the cluster list *)
C14_NeighborsExact ==
    /\ [](pc = "open" => (Range(n) = Ball(p) /\ NoRepeat(n)))
    /\ [][(pc = "while" /\ pc' = "claim" /\ Label(At(n, p_prime)) = None) =>
              /\ assigned' = assigned
              /\ cluster' = cluster
              /\ Range(n') \subseteq Range(n) \cup Ball(At(n, p_prime))
              /\ (Len(n') > Len(n) => Ball(At(n, p_prime)) \subseteq Range(n'))]_vars

(* the query has returned a point at distance exactly eps and left out a farther one *)
C14_Witness ==
    /\ pc = "open"
    /\ eps >= 1
    /\ \E i \in Range(n) : _euclidean(p, i) = eps * eps
    /\ \E i \in Indices : i # p /\ i \notin Range(n)

(* C15: a queue entry that is Unvisited or Noise when processed is labeled c and appended once *)
(* to cluster c, core or not; an entry that carries any cluster id is neither relabeled nor *)
(* appended again *)
C15_ClaimStep ==
    /\ [](InRun => \A k \in 1..Len(cluster) : NoRepeat(cluster[k]))
    /\ [][pc = "claim" =>
              IF Label(At(n, p_prime)) \in {None, Noise}
              THEN /\ At(assigned', At(n, p_prime)) = c
                   /\ At(cluster', c) = Append(At(cluster, c), At(n, p_prime))
                   /\ \A i \in Indices \ {At(n, p_prime)} : At(assigned', i) = Label(i)
                   /\ \A k \in 1..Len(cluster) : k # c + 1 => cluster'[k] = cluster[k]
              ELSE assigned' = assigned /\ cluster' = cluster]_vars

(* the expansion of cluster c has passed an entry labeled 0 untouched and claimed Unvisited *)
(* non-core entries; cluster 0 holds a non-core point that was Noise when it was claimed *)
C15_Witness ==
    /\ pc = "while"
    /\ p_prime >= Len(n)
    /\ c >= 1
    /\ \E i \in Range(n) : Label(i) = 0
    /\ \E i \in Range(n) : i > p /\ ~CorePoint(i) /\ Label(i) = c
    /\ \E i \in Indices : i < At(cluster, 0)[1] /\ ~CorePoint(i) /\ Label(i) = 0

(* C16: the work queue of an expansion never holds an index twice, so it is never longer *)
(* than the dataset *)
C16_QueueNoRepeat ==
    (pc \in {"open", "while", "claim"}) =>
        /\ NoRepeat(n)
        /\ Range(n) \subseteq Indices
        /\ Len(n) <= Len(d)

(* a core entry has been joined: the queue has grown to the whole dataset, seed included *)
C16_Witness ==
    /\ pc = "claim"
    /\ Len(n) = Len(d)
    /\ Len(d) >= 3
    /\ p \in Range(n)

(* C17: every expansion ends, its cursor reaching the end of the queue and control returning *)
(* to the for loop, and every run ends with the for loop exhausted *)
C17_Terminates ==
    /\ (pc \in {"open", "while", "claim"}) ~> (pc = "scan")
    /\ InRun ~> (pc = "done")

(* a run has returned after an expansion whose queue grew while it was being traversed *)
C17_Witness ==
    /\ pc = "done"
    /\ p = Len(d)
    /\ \E k \in 1..Len(cluster) :
           \E i \in Members(k) : i # cluster[k][1] /\ i \notin Ball(cluster[k][1])

(* C18: at every loop boundary and at completion, index i has label k >= 0 iff i occurs in *)
(* cluster list entry k, where it occurs once; Noise and Unvisited indices occur in no cluster *)
C18_TableAgreesWithList ==
    pc # "idle" =>
        /\ Len(assigned) = Len(d)
        /\ \A i \in Indices : Label(i) \in {None, Noise} \cup 0..(Len(cluster) - 1)
        /\ \A k \in 1..Len(cluster) :
               /\ Members(k) = {i \in Indices : Label(i) = k - 1}
               /\ NoRepeat(cluster[k])

C18_Witness ==
    /\ pc = "claim"
    /\ \E i \in Indices : Label(i) = None
    /\ \E i \in Indices : Label(i) = Noise
    /\ Len(At(cluster, c)) >= 1
    /\ Label(At(n, p_prime)) = Noise

(* C19: within a run the neighbor query is issued at most once for a point, only while the *)
(* point is Unvisited, and exactly once for every point by the time run completes; a Noise *)
(* entry of an expansion is claimed without a query *)
C19_QueriedOnce ==
    /\ [](pc # "idle" => \A i \in Indices : At(queries, i) \in {0, 1})
    /\ [](pc = "done" => \A i \in Indices : At(queries, i) = 1)
    /\ [][InRun => \A i \in Indices :
                       At(queries', i) # At(queries, i) =>
                           (Label(i) = None /\ At(queries, i) = 0 /\ At(queries', i) = 1)]_vars
    /\ [][(pc = "while" /\ pc' = "claim" /\ Label(At(n, p_prime)) = Noise) => queries' = queries]_vars

(* a run has completed in which an expansion met a point the for loop had marked Noise *)
C19_Witness ==
    /\ pc = "done"
    /\ Len(d) >= 3
    /\ \A i \in Indices : At(queries, i) = 1
    /\ \E k \in 1..Len(cluster) : \E i \in Members(k) : i < cluster[k][1] /\ ~CorePoint(i)

Seed(k) == cluster[k][1]

(* C20: an expansion is started only from an Unvisited core point, no point seeds two *)
(* clusters, the seed of a cluster is its smallest-index core point, and the clusters are *)
(* numbered in ascending order of their seeds *)
C20_SeedIsSmallestCore ==
    /\ pc = "open" => (Label(p) = None /\ CorePoint(p))
    /\ pc # "idle" =>
           \A k \in {j \in 1..Len(cluster) : cluster[j] # <<>>} :
               /\ CorePoint(Seed(k))
               /\ \A i \in Members(k) : CorePoint(i) => Seed(k) <= i
               /\ \A k2 \in {j \in 1..Len(cluster) : cluster[j] # <<>>} : k < k2 => Seed(k) < Seed(k2)

(* two clusters, one of them holding a non-core index below its seed *)
C20_Witness ==
    /\ pc = "done"
    /\ Len(cluster) >= 2
    /\ Seed(1) < Seed(2)
    /\ \E k \in 1..Len(cluster) : \E i \in Members(k) : i < Seed(k)

====
